---- MODULE Spec2Model ----
(***************************************************************************)
(* AsyncChallenger (src/recognizer/agents/playwright/async_control.py).    *)
(*                                                                         *)
(* One AsyncChallenger instance: the session fields retry_times, retried,  *)
(* dynamic and captcha_token, the coroutine solve_recaptcha with the       *)
(* recursive handle_recaptcha / detect_tiles / retry below it, and the     *)
(* request_handler callback the page dispatches between the coroutine's    *)
(* awaits.  asyncio runs one coroutine at a time and switches only at an   *)
(* await, so every action below runs from one await to the next.           *)
(*                                                                         *)
(* Python values: a str is a TLA+ string; True, False and None are the     *)
(* strings PyTrue, PyFalse and PyNone (TLC cannot compare a string with a  *)
(* boolean, and not_yet_passed is Union[str, bool]).                       *)
(*                                                                         *)
(* A Playwright call times out only where the code handles the timeout     *)
(* (lines 69, 78, 127, 163) and page.evaluate fails only inside            *)
(* check_result (lines 53, 57); the other collaborator calls complete.     *)
(***************************************************************************)
EXTENDS Integers, Sequences, FiniteSets, TLC

VARIABLES
    retry_times,    \* self.retry_times (line 27)
    retried,        \* self.retried (line 28)
    dynamic,        \* self.dynamic (line 29)
    captcha_token,  \* self.captcha_token (line 30)
    status,         \* solve_recaptcha: "idle", "running", "returned", "raised"
    result,         \* the value returned or the exception raised
    frame,          \* the running handle_recaptcha frame: position and locals
    stack,          \* the suspended handle_recaptcha frames below it
    cycles,         \* handle_recaptcha calls made by this invocation
    entry_retried,  \* self.retried when this invocation started
    succeeded,      \* the invocation before this one returned a token
    calls,          \* kinds of page calls made by this invocation
    request,        \* the request handed to request_handler (SpecObserver)
    obs_pc          \* request_handler's position and how it ended (SpecObserver)

vars == <<retry_times, retried, dynamic, captcha_token, status, result, frame,
          stack, cycles, entry_retried, succeeded, calls, request, obs_pc>>

\* The coroutine's own state: an observer step leaves it unchanged, every
\* step of solve_recaptcha changes it.
ctl == <<status, result, frame, stack>>

-----------------------------------------------------------------------------
(* Bounds of the model *)

MaxRetryTimes == 3
MaxRetried == 4
MaxCoords == 2
MaxBodyLen == 3

(* Constants of the program *)

GridPolls == 10
TokenPolls == 5

-----------------------------------------------------------------------------
(* Python values *)

PyTrue == "True"
PyFalse == "False"
PyNone == "None"
NoResult == "-"

Tokens == {"tA", "tB"}

\* bool(v) for the values that occur
Truthy(v) == v \notin {PyFalse, PyNone, ""}

\* isinstance(v, str)
IsStr(v) == v \notin {PyTrue, PyFalse, PyNone}

-----------------------------------------------------------------------------
(* request_handler: the network observer *)

UrlParts == {"google.com", "recaptcha.net", "reload", "userverify"}
\* A url is the set of the substrings it holds, those of UrlParts being the
\* ones the code looks for
BodyMarks == {"dynamic", "rresp", "bgdata"}

\* The text of a body around its marks, as the lexemes the token pattern
\* reads: UV is "uvresp" (quoted), COMMA a comma, WS white space, QA and QB
\* the quoted strings "tA" and "tB", QE the empty quoted string "".
Lexemes == {"UV", "COMMA", "WS", "QA", "QB", "QE"}

\* The text between the quotes of a quoted lexeme
Quoted(lx) ==
    CASE lx = "UV" -> "uvresp"
      [] lx = "QA" -> "tA"
      [] lx = "QB" -> "tB"
      [] OTHER -> ""

NoMatch == "<no match>"

RECURSIVE SkipWs(_, _)
SkipWs(text, i) ==
    IF i <= Len(text) /\ text[i] = "WS" THEN SkipWs(text, i + 1) ELSE i

\* The pattern "uvresp"\s*,\s*"([^"]+)" tried at position i: its group, or
\* NoMatch
MatchAt(text, i) ==
    IF i > Len(text) \/ text[i] # "UV" THEN NoMatch
    ELSE LET j == SkipWs(text, i + 1) IN
         IF j > Len(text) \/ text[j] # "COMMA" THEN NoMatch
         ELSE LET k == SkipWs(text, j + 1) IN
              IF k > Len(text) \/ Quoted(text[k]) = "" THEN NoMatch
              ELSE Quoted(text[k])

\* re.search: the leftmost position where the pattern matches
RECURSIVE SearchFrom(_, _)
SearchFrom(text, i) ==
    IF i > Len(text) THEN NoMatch
    ELSE IF MatchAt(text, i) # NoMatch THEN MatchAt(text, i)
    ELSE SearchFrom(text, i + 1)

re_search(text) == SearchFrom(text, 1)

\* Filtered passing every request that has the domain or the marker
FilteredWhenNeither(url) ==
    /\ ("google.com" \notin url /\ "recaptcha.net" \notin url)
    /\ ("reload" \notin url /\ "userverify" \notin url)

\* Line 36: the request is not one to look at
Filtered(url) ==
    \/ ("google.com" \notin url /\ "recaptcha.net" \notin url)
    \/ ("reload" \notin url /\ "userverify" \notin url)

\* TokenAfter without the test for the continuation markers
TokenAfterAnyBody(rq, tok) ==
    IF "userverify" \in rq.url
    THEN LET m == re_search(rq.text) IN IF m = NoMatch THEN tok ELSE m
    ELSE tok

\* Lines 47-50: the token after a body was read
TokenAfter(rq, tok) ==
    IF "userverify" \in rq.url /\ "rresp" \notin rq.marks /\ "bgdata" \notin rq.marks
    THEN LET m == re_search(rq.text) IN IF m = NoMatch THEN tok ELSE m
    ELSE tok

\* request_handler's effect on (self.dynamic, self.captcha_token).  The
\* response is "error" (request.response() raises), "null" (no response),
\* "text_error" (response.text() raises) or "ok".
request_handler(rq, dyn, tok) ==
    IF Filtered(rq.url) \/ rq.response # "ok"
    THEN [dynamic |-> dyn, captcha_token |-> tok]
    ELSE [dynamic |-> "dynamic" \in rq.marks, captcha_token |-> TokenAfter(rq, tok)]

\* The exception the block of lines 40-50 ends with, "None" when it runs to
\* its end: the Error of request.response() or of response.text(), or the
\* AssertionError of line 41 or of line 49
BlockRaises(rq) ==
    IF Filtered(rq.url) THEN "None"
    ELSE IF rq.response \in {"error", "text_error"} THEN "Error"
    ELSE IF rq.response = "null" THEN "AssertionError"
    ELSE IF /\ "userverify" \in rq.url
            /\ "rresp" \notin rq.marks /\ "bgdata" \notin rq.marks
            /\ re_search(rq.text) = NoMatch
    THEN "AssertionError"
    ELSE "None"

\* suppress for Playwright's Error only, as check_result has it
suppressPlaywrightError(e) == IF e = "Error" THEN "None" ELSE e

\* Line 39, with suppress(Exception): what leaves the block that ended with e
suppress(e) == IF e \in {"Error", "AssertionError"} THEN "None" ELSE e

Texts == UNION {[1..n -> Lexemes] : n \in 0..MaxBodyLen}

Requests ==
    [url : SUBSET UrlParts, response : {"error", "null", "text_error"},
     marks : {{}}, text : {<<>>}]
    \cup [url : SUBSET UrlParts, response : {"ok"},
          marks : SUBSET BodyMarks, text : Texts]

NoRequest == [url |-> {}, response |-> "null", marks |-> {}, text |-> <<>>]

Body(marks, text) == [response |-> "ok", marks |-> marks, text |-> text]
To(url, body) == [url |-> url] @@ body

\* The requests a page issues while solve_recaptcha runs: one to another
\* site, reloads with and without "dynamic", a failed response, verifications
\* that succeed with either token, one that continues the challenge and one
\* whose token field is malformed
PageRequests ==
    {To({"example.org", "reload"}, Body({"dynamic"}, <<>>)),
     To({"google.com", "reload"}, Body({"dynamic"}, <<>>)),
     To({"google.com", "reload"}, Body({}, <<>>)),
     To({"recaptcha.net", "reload"}, [response |-> "error", marks |-> {}, text |-> <<>>]),
     To({"recaptcha.net", "userverify"}, Body({}, <<"UV", "COMMA", "QA">>)),
     To({"google.com", "userverify"}, Body({"dynamic"}, <<"UV", "WS", "COMMA", "QB">>)),
     To({"google.com", "userverify"}, Body({"rresp"}, <<"UV", "COMMA", "QA">>)),
     To({"google.com", "userverify"}, Body({}, <<"UV", "COMMA", "QE">>))}

-----------------------------------------------------------------------------
(* check_result *)

EvalResults == {"PlaywrightError", ""} \cup Tokens

\* Lines 52-61: r1 and r2 are what the two page.evaluate calls give
check_result(r1, r2) ==
    IF r1 # "PlaywrightError" THEN r1
    ELSE IF r2 # "PlaywrightError" THEN r2
    ELSE PyNone

-----------------------------------------------------------------------------
(* The frames *)

NoFrame ==
    [pc |-> "none", visible |-> FALSE, tiles |-> 0, polls |-> 0,
     area_captcha |-> FALSE,
     verify |-> FALSE, looping |-> FALSE, not_yet_passed |-> PyNone,
     coordinates |-> <<>>, clicked |-> <<>>, waits |-> 0]

At(pc) == [NoFrame EXCEPT !.pc = pc]

TileCounts == {4, 9, 16}
Points == {"p", "q"}
Coordinates == UNION {[1..n -> Points] : n \in 0..MaxCoords}


-----------------------------------------------------------------------------
(* Decisions of the code, one operator each *)

\* AreaCaptcha taking every grid that is not 3x3 for a 4x4 one
AreaCaptchaNotNine(n) == n # 9

\* Line 146
AreaCaptcha(n) == n = 16

\* Line 139
GridLoaded(n) == n \in {9, 16}

\* LimitReached with > for >=
LimitExceeded(n, limit) == n > limit

\* Lines 101 and 176
LimitReached(n, limit) == n >= limit

\* ValuesAfterRetry with the reset on both retries
ValuesAfterAnyRetry(path, dyn, tok) == [dynamic |-> FALSE, captcha_token |-> ""]

\* Lines 104-106 reset the two fields on the detector's retry ("detect");
\* lines 174-179 do not on the retry after the token wait ("wait")
ValuesAfterRetry(path, dyn, tok) ==
    IF path = "detect"
    THEN [dynamic |-> FALSE, captcha_token |-> ""]
    ELSE [dynamic |-> dyn, captcha_token |-> tok]

\* AfterDetect with a while that repeats on False and ends on a truthy value
AfterDetectWhileFalse(v, area, looping, dyn) ==
    IF looping THEN (IF Truthy(v) THEN "submit" ELSE "loop")
    ELSE IF dyn /\ ~area THEN (IF Truthy(v) THEN "loop" ELSE "submit")
    ELSE IF IsStr(v) THEN "return"
    ELSE "submit"

\* AfterDetect without "and not area_captcha"
AfterDetectAnyGrid(v, area, looping, dyn) ==
    IF (looping \/ dyn) /\ Truthy(v) THEN "loop"
    ELSE IF IsStr(v) THEN "return"
    ELSE "submit"

\* Lines 149-162, with v what detect_tiles returned: "loop" (lines 151-152),
\* "return" (line 156) or "submit" (line 160).  looping: the call was the
\* one of line 152, inside the while.
AfterDetect(v, area, looping, dyn) ==
    IF (looping \/ (dyn /\ ~area)) /\ Truthy(v) THEN "loop"
    ELSE IF IsStr(v) THEN "return"
    ELSE "submit"

\* DetectOutcome retrying on every no-match
DetectOutcomeAlwaysRetry(matches, verify) ==
    IF ~matches THEN "retry" ELSE "click"

\* Lines 85-97: what detect_tiles does with the detector's answer, matches
\* being any(response): "retry" (line 88), "false" (line 90) or "click"
\* (lines 92-97)
DetectOutcome(matches, verify) ==
    IF ~matches THEN (IF ~verify THEN "retry" ELSE "false") ELSE "click"

\* TokenWaitValue asking the page first
TokenWaitValuePageFirst(tok, r) == IF Truthy(r) THEN r ELSE tok

\* Line 169: the token of one check, r what check_result gives
TokenWaitValue(tok, r) == IF Truthy(tok) THEN tok ELSE r

\* Lines 129-133: the result of a cycle whose label lookup timed out
TimeoutResult(tok, r) == IF Truthy(r) THEN r ELSE PyFalse

\* AfterVisible going on whatever the wait gave
AfterVisibleAlways(visible) == "settle"

\* Lines 195-199
AfterVisible(visible) == IF visible THEN "settle" ELSE "return"

\* A handle_recaptcha call returns v: the frames called at line 179 return
\* it too (return await), a frame called through line 147 (detect_tiles,
\* retry) takes it as not_yet_passed and goes on at line 149 with
\* area_captcha false.  Where the coroutine stands after that.
RECURSIVE Unwind(_, _, _)
Unwind(v, stk, dyn) ==
    IF stk = <<>> THEN [kind |-> "done", stack |-> <<>>]
    ELSE LET top == stk[Len(stk)]
             rest == SubSeq(stk, 1, Len(stk) - 1)
             next == AfterDetect(v, FALSE, FALSE, dyn)
         IN IF top = "line179" \/ next = "return" THEN Unwind(v, rest, dyn)
            ELSE [kind |-> next, stack |-> rest]

-----------------------------------------------------------------------------
(* Steps shared by the actions *)

Session == <<retry_times, retried, dynamic, captcha_token>>
Observer == <<request, obs_pc>>

Raise(e) ==
    /\ status' = "raised"
    /\ result' = e
    /\ frame' = NoFrame
    /\ stack' = <<>>

Return(v) ==
    /\ status' = "returned"
    /\ result' = v
    /\ frame' = NoFrame
    /\ stack' = <<>>

\* The running handle_recaptcha returns v
CycleReturns(v) ==
    LET u == Unwind(v, stack, dynamic) IN
    IF u.kind = "done" THEN Return(v)
    ELSE /\ UNCHANGED <<status, result>>
         /\ stack' = u.stack
         /\ frame' = [NoFrame EXCEPT
                         !.pc = IF u.kind = "loop" THEN "dyn_wait" ELSE "submit",
                         !.looping = (u.kind = "loop"),
                         !.not_yet_passed = v]

\* detect_tiles returns v to the running frame (lines 147-156)
DetectReturns(v) ==
    LET next == AfterDetect(v, frame.area_captcha, frame.looping, dynamic) IN
    IF next = "return" THEN CycleReturns(v)
    ELSE /\ UNCHANGED <<status, result, stack>>
         /\ frame' = [frame EXCEPT
                         !.pc = IF next = "loop" THEN "dyn_wait" ELSE "submit",
                         !.looping = (next = "loop"),
                         !.not_yet_passed = v,
                         !.coordinates = <<>>, !.clicked = <<>>]

\* Lines 146-147: the first detect_tiles call of a cycle, n tiles read
CallDetect(n, polls) ==
    frame' = [frame EXCEPT !.pc = "detect", !.tiles = n, !.polls = polls,
                           !.area_captcha = AreaCaptcha(n),
                           !.verify = AreaCaptcha(n)]

\* self.retried += 1 and the limit check, then the call of handle_recaptcha
\* (path "wait", lines 175-179) or the reset and the reload click (path
\* "detect", lines 100-114)
Retry(path) ==
    /\ retried' = retried + 1
    /\ IF LimitReached(retried + 1, retry_times)
       THEN /\ Raise("RecursionError")
            /\ UNCHANGED <<dynamic, captcha_token, cycles>>
       ELSE /\ dynamic' = ValuesAfterRetry(path, dynamic, captcha_token).dynamic
            /\ captcha_token' = ValuesAfterRetry(path, dynamic, captcha_token).captcha_token
            /\ UNCHANGED <<status, result>>
            /\ IF path = "detect"
               THEN /\ stack' = Append(stack, "line147")
                    /\ frame' = At("reload_click")
                    /\ cycles' = cycles
               ELSE /\ stack' = Append(stack, "line179")
                    /\ frame' = At("prompt")
                    /\ cycles' = cycles + 1

-----------------------------------------------------------------------------
(* solve_recaptcha *)

\* Lines 190-194, up to the await of click_checkbox
SolveEntry ==
    /\ status # "running"
    /\ retried < MaxRetried
    /\ status' = "running"
    /\ result' = NoResult
    /\ dynamic' = FALSE
    /\ captcha_token' = ""
    /\ frame' = At("click_checkbox")
    /\ stack' = <<>>
    /\ cycles' = 0
    /\ entry_retried' = retried
    /\ succeeded' = (status = "returned" /\ result \in Tokens)
    /\ calls' = {}
    /\ UNCHANGED <<retry_times, retried, request, obs_pc>>

\* Lines 72-79 and 194: the click, or its timeout
ClickCheckbox ==
    /\ status = "running" /\ frame.pc = "click_checkbox"
    /\ \E clicked \in BOOLEAN :
          /\ frame' = At("check_visible")
          /\ calls' = calls \cup {"checkbox"}
    /\ UNCHANGED <<Session, status, result, stack, cycles, entry_retried, succeeded, Observer>>

\* Lines 63-70 and 195-199
CheckVisible ==
    /\ status = "running" /\ frame.pc = "check_visible"
    /\ \E visible \in BOOLEAN :
          IF AfterVisible(visible) = "settle"
          THEN /\ frame' = [At("settle") EXCEPT !.visible = visible]
               /\ UNCHANGED <<status, result, stack>>
          ELSE Return(PyFalse)
    /\ UNCHANGED <<Session, cycles, entry_retried, succeeded, calls, Observer>>

\* Lines 199-200 and 120-122: the pause, then handle_recaptcha up to the
\* await of text_content
Settle ==
    /\ status = "running" /\ frame.pc = "settle"
    /\ frame' = At("prompt")
    /\ cycles' = cycles + 1
    /\ UNCHANGED <<Session, status, result, stack, entry_retried, succeeded, calls, Observer>>

-----------------------------------------------------------------------------
(* handle_recaptcha *)

PromptReads == {"TimeoutError", PyNone, "", "Select all images with a bus"}

\* Lines 122-136: text_content gives the prompt, or times out
ReadPrompt ==
    /\ status = "running" /\ frame.pc = "prompt"
    /\ \E prompt \in PromptReads :
          IF prompt = "TimeoutError"
          THEN /\ frame' = At("check_result")
               /\ UNCHANGED <<status, result, stack>>
          ELSE IF ~Truthy(prompt)
          THEN Raise("ValueError")
          ELSE /\ frame' = At("tiles")
               /\ UNCHANGED <<status, result, stack>>
    /\ UNCHANGED <<Session, cycles, entry_retried, succeeded, calls, Observer>>

\* Lines 129-133
TimeoutCheck ==
    /\ status = "running" /\ frame.pc = "check_result"
    /\ \E r1 \in EvalResults, r2 \in EvalResults :
          CycleReturns(TimeoutResult(captcha_token, check_result(r1, r2)))
    /\ calls' = calls \cup {"evaluate"}
    /\ UNCHANGED <<Session, cycles, entry_retried, succeeded, Observer>>

\* Lines 136-140 and 146-147: the first read of the tiles
ReadTiles ==
    /\ status = "running" /\ frame.pc = "tiles"
    /\ \E n \in TileCounts :
          IF GridLoaded(n) \/ GridPolls = 0
          THEN CallDetect(n, 0)
          ELSE frame' = [frame EXCEPT !.pc = "tiles_poll", !.tiles = n, !.polls = 0]
    /\ UNCHANGED <<Session, status, result, stack, cycles, entry_retried, succeeded, calls, Observer>>

\* Lines 138-147: one second, the tiles read again
PollTiles ==
    /\ status = "running" /\ frame.pc = "tiles_poll"
    /\ \E n \in TileCounts :
          IF GridLoaded(n) \/ frame.polls + 1 >= GridPolls
          THEN CallDetect(n, frame.polls + 1)
          ELSE frame' = [frame EXCEPT !.tiles = n, !.polls = frame.polls + 1]
    /\ UNCHANGED <<Session, status, result, stack, cycles, entry_retried, succeeded, calls, Observer>>

\* Lines 82-91: the screenshot and the detector, then the branch on its
\* answer
Detect ==
    /\ status = "running" /\ frame.pc = "detect"
    /\ calls' = calls \cup {"detect"}
    /\ \E matches \in BOOLEAN, coordinates \in Coordinates :
          IF DetectOutcome(matches, frame.verify) = "retry"
          THEN /\ coordinates = <<>>
               /\ Retry("detect")
          ELSE IF DetectOutcome(matches, frame.verify) = "false"
          THEN /\ coordinates = <<>>
               /\ DetectReturns(PyFalse)
               /\ UNCHANGED <<Session, cycles>>
          ELSE IF coordinates = <<>>
          THEN /\ DetectReturns(PyTrue)
               /\ UNCHANGED <<Session, cycles>>
          ELSE /\ frame' = [frame EXCEPT !.pc = "click_tiles",
                                         !.coordinates = coordinates,
                                         !.clicked = <<>>]
               /\ UNCHANGED <<Session, status, result, stack, cycles>>
    /\ UNCHANGED <<retry_times, entry_retried, succeeded, Observer>>

\* Lines 92-95: one click
ClickTile ==
    /\ status = "running" /\ frame.pc = "click_tiles"
    /\ Len(frame.clicked) < Len(frame.coordinates)
    /\ frame' = [frame EXCEPT
                    !.clicked = Append(@, frame.coordinates[Len(@) + 1])]
    /\ calls' = calls \cup {"tile"}
    /\ UNCHANGED <<Session, status, result, stack, cycles, entry_retried, succeeded, Observer>>

\* Line 97, after the last click (and its pause)
TilesClicked ==
    /\ status = "running" /\ frame.pc = "click_tiles"
    /\ Len(frame.clicked) = Len(frame.coordinates)
    /\ DetectReturns(PyTrue)
    /\ UNCHANGED <<Session, cycles, entry_retried, succeeded, calls, Observer>>

\* Lines 151-152: five seconds, then detect_tiles in verify mode
DynamicWait ==
    /\ status = "running" /\ frame.pc = "dyn_wait"
    /\ frame' = [frame EXCEPT !.pc = "detect", !.verify = TRUE]
    /\ UNCHANGED <<Session, status, result, stack, cycles, entry_retried, succeeded, calls, Observer>>

\* Lines 108-115 and 120-122: the reload click of retry, then the next cycle
ReloadClick ==
    /\ status = "running" /\ frame.pc = "reload_click"
    /\ frame' = At("prompt")
    /\ cycles' = cycles + 1
    /\ calls' = calls \cup {"reload"}
    /\ UNCHANGED <<Session, status, result, stack, entry_retried, succeeded, Observer>>

\* Lines 160-165: the submit click, or its timeout and the visibility check
Submit ==
    /\ status = "running" /\ frame.pc = "submit"
    /\ \E clicked \in BOOLEAN :
          frame' = [frame EXCEPT !.pc = "token_wait", !.waits = 0]
    /\ calls' = calls \cup {"submit"}
    /\ UNCHANGED <<Session, status, result, stack, cycles, entry_retried, succeeded, Observer>>

\* Lines 169-170: one check of the token wait; check_result is called only
\* when self.captcha_token is empty
TokenCheck ==
    /\ status = "running" /\ frame.pc = "token_wait"
    /\ \E r1 \in EvalResults, r2 \in EvalResults :
          LET t == TokenWaitValue(captcha_token, check_result(r1, r2)) IN
          IF Truthy(t) THEN CycleReturns(t)
          ELSE /\ frame' = [frame EXCEPT !.pc = "token_sleep"]
               /\ UNCHANGED <<status, result, stack>>
    /\ calls' = IF Truthy(captcha_token) THEN calls ELSE calls \cup {"evaluate"}
    /\ UNCHANGED <<Session, cycles, entry_retried, succeeded, Observer>>

\* Lines 172-179: one second, then the next check or, after the last, the
\* retry
TokenSleep ==
    /\ status = "running" /\ frame.pc = "token_sleep"
    /\ IF frame.waits + 1 < TokenPolls
       THEN /\ frame' = [frame EXCEPT !.pc = "token_wait", !.waits = @ + 1]
            /\ UNCHANGED <<Session, status, result, stack, cycles>>
       ELSE Retry("wait")
    /\ UNCHANGED <<retry_times, entry_retried, succeeded, calls, Observer>>

-----------------------------------------------------------------------------
(* request_handler, dispatched at any await *)

Observe ==
    /\ \E rq \in PageRequests :
          /\ dynamic' = request_handler(rq, dynamic, captcha_token).dynamic
          /\ captcha_token' = request_handler(rq, dynamic, captcha_token).captcha_token
    /\ UNCHANGED <<retry_times, retried, ctl, cycles, entry_retried, succeeded, calls, Observer>>

-----------------------------------------------------------------------------
(* The session *)

Init ==
    /\ retry_times \in 1..MaxRetryTimes
    /\ retried = 0
    /\ dynamic = FALSE
    /\ captcha_token = ""
    /\ status = "idle"
    /\ result = NoResult
    /\ frame = NoFrame
    /\ stack = <<>>
    /\ cycles = 0
    /\ entry_retried = 0
    /\ succeeded = FALSE
    /\ calls = {}
    /\ request = NoRequest
    /\ obs_pc = "none"

Next ==
    \/ SolveEntry
    \/ ClickCheckbox
    \/ CheckVisible
    \/ Settle
    \/ ReadPrompt
    \/ TimeoutCheck
    \/ ReadTiles
    \/ PollTiles
    \/ Detect
    \/ ClickTile
    \/ TilesClicked
    \/ DynamicWait
    \/ ReloadClick
    \/ Submit
    \/ TokenCheck
    \/ TokenSleep
    \/ Observe

Spec == Init /\ [][Next]_vars

\* The steps of the coroutine of a running solve_recaptcha
Coroutine ==
    \/ ClickCheckbox \/ CheckVisible \/ Settle \/ ReadPrompt \/ TimeoutCheck
    \/ ReadTiles \/ PollTiles \/ Detect \/ ClickTile \/ TilesClicked
    \/ DynamicWait \/ ReloadClick \/ Submit \/ TokenCheck \/ TokenSleep

\* Every await of the coroutine completes (the waits and clicks have fixed
\* timeouts, the pauses fixed lengths) and the event loop resumes a coroutine
\* whose await completed: a running invocation takes its next step, however
\* many observer callbacks are dispatched.  Nothing obliges the caller to
\* call solve_recaptcha again, or the page to send requests.
SpecFair == Spec /\ WF_vars(Coroutine)

-----------------------------------------------------------------------------
(* request_handler alone: one call, on any request, in any state of the    *)
(* two fields                                                              *)

\* Lines 34-50
HandleRequest ==
    /\ obs_pc = "called"
    /\ obs_pc' = IF suppress(BlockRaises(request)) = "None" THEN "done" ELSE "raised"
    /\ dynamic' = request_handler(request, dynamic, captcha_token).dynamic
    /\ captcha_token' = request_handler(request, dynamic, captcha_token).captcha_token
    /\ UNCHANGED <<retry_times, retried, ctl, cycles, entry_retried, succeeded, calls, request>>

InitObserver ==
    /\ retry_times = MaxRetryTimes
    /\ retried = 0
    /\ dynamic \in BOOLEAN
    /\ captcha_token \in {"", "tB"}
    /\ status = "idle"
    /\ result = NoResult
    /\ frame = NoFrame
    /\ stack = <<>>
    /\ cycles = 0
    /\ entry_retried = 0
    /\ succeeded = FALSE
    /\ calls = {}
    /\ request \in Requests
    /\ obs_pc = "called"

NextObserver == HandleRequest

SpecObserver == InitObserver /\ [][NextObserver]_vars


-----------------------------------------------------------------------------
(* Properties *)

Running == status = "running"
Ended == status \in {"returned", "raised"}

\* A step of solve_recaptcha (not of the observer)
Step == ctl' # ctl

\* The step makes the running handle_recaptcha return v: to the caller of
\* solve_recaptcha, or as not_yet_passed to the cycle that called it through
\* detect_tiles
CycleReturned(v) ==
    \/ status' = "returned" /\ result' = v
    \/ /\ status' = "running"
       /\ Len(stack') < Len(stack)
       /\ frame'.not_yet_passed = v

\* C1: retried never exceeds retry_times, in any invocation of a session.
C1_RetriedWithinLimit == retried <= retry_times

\* C2 as stated: once an invocation has started, no step of the state
\* machine changes dynamic or captcha_token.
C2_NoResetAfterEntry ==
    [][(Running /\ Step) => (dynamic' = dynamic /\ captcha_token' = captcha_token)]_vars

\* C2 as amended: the state machine sets dynamic = False and
\* captcha_token = "" at the entry of solve_recaptcha and in retry(), on the
\* detector's no-match branch, when the limit is not reached; no other step
\* of it (the retry after the token wait, detection, the clicks, the token
\* wait) changes either field.
C2_ResetAtEntryAndDetectorRetry ==
    [][Step =>
         IF ~Running \/ (frame.pc = "detect" /\ frame'.pc = "reload_click")
         THEN dynamic' = FALSE /\ captcha_token' = ""
         ELSE dynamic' = dynamic /\ captcha_token' = captcha_token]_vars

\* A token stored before the retry of lines 175-179 is still stored when the
\* next cycle starts
C2_TokenKeptAcrossWaitRetry ==
    /\ Running /\ frame.pc = "prompt"
    /\ stack # <<>> /\ stack[Len(stack)] = "line179"
    /\ captcha_token \in Tokens

\* C3: an invocation that ends returns a non-empty token or False, or raises
\* the retry-limit error.
C3_ThreeOutcomes ==
    Ended =>
        \/ status = "returned" /\ result \in Tokens \cup {PyFalse}
        \/ status = "raised" /\ result = "RecursionError"

\* Whether text holds, from position i to position k, "uvresp", white
\* space, a comma, white space and a non-empty quoted string
FieldAt(text, i, k) ==
    /\ i >= 1 /\ k <= Len(text) /\ i + 2 <= k
    /\ text[i] = "UV"
    /\ text[k] \in {"UV", "QA", "QB"}
    /\ \E j \in (i + 1)..(k - 1) :
          /\ text[j] = "COMMA"
          /\ \A m \in ((i + 1)..(k - 1)) \ {j} : text[m] = "WS"

Fields(text) ==
    {ik \in (1..Len(text)) \X (1..Len(text)) : FieldAt(text, ik[1], ik[2])}

\* The quoted string of the leftmost field
FirstGroup(text) ==
    LET ik == CHOOSE f \in Fields(text) : \A g \in Fields(text) : f[1] <= g[1]
    IN Quoted(text[ik[2]])

Continues(rq) == "rresp" \in rq.marks \/ "bgdata" \in rq.marks

\* C4: a userverify response that passed the filter, holds no continuation
\* marker and holds a well-formed token field leaves captcha_token equal to
\* the field's quoted string; a body with a continuation marker, and a
\* response to a request that is not a userverify one, leave captcha_token
\* as it was.
C4_ObserverToken ==
    [][HandleRequest =>
         /\ ( /\ ~Filtered(request.url) /\ "userverify" \in request.url
              /\ request.response = "ok" /\ ~Continues(request)
              /\ Fields(request.text) # {} )
            => captcha_token' = FirstGroup(request.text)
         /\ Continues(request) => captcha_token' = captcha_token
         /\ "userverify" \notin request.url => captcha_token' = captcha_token]_vars

C4_TokenCaptured ==
    /\ obs_pc = "done"
    /\ request.url = {"recaptcha.net", "userverify"}
    /\ request.response = "ok" /\ request.marks = {"dynamic"}
    /\ request.text = <<"UV", "COMMA", "QA">>
    /\ captcha_token = "tA"

\* C5: a cycle whose label lookup timed out while captcha_token is not empty
\* returns a token.
C5_TimeoutReturnsCapturedToken ==
    [][(Running /\ frame.pc = "check_result" /\ Step /\ captcha_token # "")
         => \E t \in Tokens : CycleReturned(t)]_vars

\* C6: in an invocation entered with retried = 0, when the token wait of a
\* cycle ends with no token, retried grows by one; if it now equals
\* retry_times the retry-limit error is raised, otherwise a new cycle starts
\* at the prompt; with retry_times = 1 the error is raised.
C6_RetryAfterTokenWait ==
    [][(Running /\ frame.pc = "token_sleep" /\ frame.waits + 1 = TokenPolls
          /\ entry_retried = 0 /\ Step)
         => /\ retried' = retried + 1
            /\ IF retried' = retry_times
               THEN status' = "raised" /\ result' = "RecursionError"
               ELSE /\ status' = "running" /\ frame' = At("prompt")
                    /\ cycles' = cycles + 1
            /\ retry_times = 1 => status' = "raised"]_vars

\* Scenario E: retry_times = 1, the one cycle submitted and the error raised
C6_ScenarioE ==
    /\ status = "raised" /\ result = "RecursionError"
    /\ retry_times = 1 /\ entry_retried = 0 /\ retried = 1
    /\ "submit" \in calls

\* C7: while the grid is polled the last count read is neither 9 nor 16 and
\* fewer than 10 polls were made; the first detector call of a cycle comes
\* after at most 10 polls, after all 10 if the last count is neither 9 nor
\* 16, with area_captcha true iff the last count is 16 and verify equal to
\* area_captcha.
C7_GridPolling ==
    /\ (Running /\ frame.pc = "tiles_poll")
          => frame.tiles \notin {9, 16} /\ frame.polls < 10
    /\ (Running /\ frame.pc = "detect" /\ ~frame.looping)
          => /\ frame.polls <= 10
             /\ frame.tiles \notin {9, 16} => frame.polls = 10
             /\ frame.area_captcha = (frame.tiles = 16)
             /\ frame.verify = frame.area_captcha

C7_PollsExhausted ==
    /\ Running /\ frame.pc = "detect" /\ ~frame.looping
    /\ frame.tiles = 4 /\ frame.polls = 10 /\ ~frame.area_captcha

\* C8 as stated: in a 16-tile cycle a detector call that reports "not yet
\* passed" (False) is not followed by the submit click.
C8_AreaCycleKeepsLooping ==
    [][(Running /\ frame.pc = "detect" /\ frame.area_captcha /\ Step
          /\ status' = "running" /\ frame'.not_yet_passed = PyFalse)
         => frame'.pc # "submit"]_vars

\* C8 as amended: a 16-tile cycle calls the detector once, in verify mode,
\* and never loops or retries from it: from the detector call the cycle goes
\* to the tile clicks or to the submit click, to the submit click when the
\* detector reports False, with retried and the frames below unchanged.
C8_AreaCycleSubmits ==
    [][(Running /\ frame.area_captcha /\ Step)
         => /\ frame.pc \in {"detect", "click_tiles", "submit", "token_wait", "token_sleep"}
            /\ frame.pc = "detect" => frame.verify
            /\ frame.pc \in {"detect", "click_tiles"}
                  => /\ status' = "running"
                     /\ frame'.pc \in {"click_tiles", "submit"}
                     /\ frame'.area_captcha
                     /\ retried' = retried /\ stack' = stack /\ cycles' = cycles
            /\ (frame.pc = "detect" /\ frame'.not_yet_passed = PyFalse)
                  => frame'.pc = "submit"]_vars

C8_AreaNoMatchSubmitted ==
    /\ Running /\ frame.pc = "submit" /\ frame.area_captcha
    /\ frame.tiles = 16 /\ frame.not_yet_passed = PyFalse

\* C9: the token wait makes at most 5 checks; a check made while
\* captcha_token is not empty returns captcha_token, one made while it is
\* empty returns a token (of the page) or goes on to the one-second pause;
\* a check changes neither retried nor the number of cycles.
C9_TokenWait ==
    [][(Running /\ frame.pc = "token_wait" /\ Step)
         => /\ frame.waits < 5
            /\ retried' = retried /\ cycles' = cycles
            /\ IF captcha_token # ""
               THEN CycleReturned(captcha_token)
               ELSE \/ /\ status' = "running"
                       /\ frame' = [frame EXCEPT !.pc = "token_sleep"]
                    \/ \E t \in Tokens : CycleReturned(t)]_vars

\* Scenario A: one cycle, the submit click, and the observer's token
\* returned with the page never asked
C9_ScenarioA ==
    /\ status = "returned" /\ result = captcha_token /\ result \in Tokens
    /\ cycles = 1 /\ retried = entry_retried
    /\ "submit" \in calls /\ "tile" \in calls /\ "evaluate" \notin calls

\* C10: the step after the checkbox click, timed out or not, is the
\* visibility wait; after the visibility wait the invocation goes on only if
\* the label was visible, and otherwise returns False; either way no cycle
\* has started, retried is as at entry and the only page call made is the
\* checkbox click.
C10_NotVisibleReturnsFalse ==
    [][Step =>
         /\ (Running /\ frame.pc = "click_checkbox")
               => status' = "running" /\ frame'.pc = "check_visible"
         /\ (Running /\ frame.pc = "check_visible")
               => /\ \/ status' = "running" /\ frame'.pc = "settle" /\ frame'.visible
                     \/ status' = "returned" /\ result' = PyFalse
                  /\ cycles' = 0 /\ retried' = entry_retried
                  /\ calls' = {"checkbox"}]_vars

C10_ReturnedFalseBeforeAnyCycle ==
    /\ status = "returned" /\ result = PyFalse
    /\ cycles = 0 /\ calls = {"checkbox"}


\* C11: an invocation that follows one that returned a token is an independent
\* attempt, so it behaves as the first invocation of a session would on the
\* same events: every step that enters it leaves dynamic false and
\* captcha_token empty, a token it returns is the one the observer stored
\* during it or one the page's accessor gave it, and it raises the retry-limit
\* error only after retry_times increments of its own.
C11_IndependentAttempt ==
    [][/\ (~Running /\ status' = "running" /\ succeeded')
            => dynamic' = FALSE /\ captcha_token' = ""
       /\ (Running /\ Step /\ succeeded /\ status' = "returned"
             /\ result' \in Tokens)
            => result' = captcha_token \/ "evaluate" \in calls'
       /\ (Running /\ Step /\ succeeded /\ status' = "raised"
             /\ result' = "RecursionError")
            => retried' - entry_retried >= retry_times]_vars


\* C12: captcha_token is write-once: once it holds a non-empty value, no
\* observer callback changes it; only a step of solve_recaptcha (the reset
\* at entry or in retry) does.
C12_WriteOnce ==
    [][(captcha_token # "" /\ ~Step) => captcha_token' = captcha_token]_vars


\* The detect_tiles call made from the running frame returns to it
DetectorAnswered ==
    /\ Running /\ Step /\ frame.pc \in {"detect", "click_tiles"}
    /\ status' = "running" /\ frame'.pc \in {"dyn_wait", "submit"}
    /\ stack' = stack

\* C13 as stated: inside the loop of a dynamic cycle a detector call that
\* reports False ("not yet passed") is followed by another round, and one
\* that reports a truthy value ends the loop.
C13_LoopWhileNotYetPassed ==
    [][(DetectorAnswered /\ frame.looping)
         => /\ frame'.not_yet_passed = PyFalse => frame'.pc = "dyn_wait"
            /\ Truthy(frame'.not_yet_passed) => frame'.pc = "submit"]_vars

\* C13 as amended: the loop runs only in cycles that are not area cycles;
\* each round is the five-second wait and then a detector call in verify
\* mode; a call that reports True (tiles matched) is followed by another
\* round and a call that reports False (no match) ends the loop and goes to
\* the submit click; no step of the loop changes retried, starts a cycle,
\* clicks a reload control or ends the invocation.
C13_LoopWhileTilesMatched ==
    [][(Running /\ Step /\ frame.looping)
         => /\ ~frame.area_captcha
            /\ frame.pc \in {"dyn_wait", "detect", "click_tiles"}
            /\ frame.pc = "dyn_wait"
                  => frame' = [frame EXCEPT !.pc = "detect", !.verify = TRUE]
            /\ frame.pc = "detect" => frame.verify
            /\ status' = "running" /\ stack' = stack
            /\ retried' = retried /\ cycles' = cycles
            /\ "reload" \notin calls' \ calls
            /\ frame'.pc \in {"detect", "click_tiles", "dyn_wait", "submit"}
            /\ frame'.pc = "dyn_wait"
                  => frame'.looping /\ frame'.not_yet_passed = PyTrue
            /\ frame'.pc = "submit"
                  => ~frame'.looping /\ frame'.not_yet_passed = PyFalse]_vars

\* The loop of a 9-tile cycle has ended on a no-match after tile clicks
C13_LoopLeftOnNoMatch ==
    /\ Running /\ frame.pc = "submit" /\ frame.tiles = 9
    /\ frame.verify /\ ~frame.area_captcha
    /\ frame.not_yet_passed = PyFalse /\ "tile" \in calls


\* C14: a cycle whose initial detector pass yields a token (the token of the
\* cycle that retry started) returns it at once, whatever dynamic is: no
\* cycle goes on, to the five-second wait, a detector call, the submit click
\* or the token wait, with a token as the value of its detector pass.
C14_TokenShortCircuit ==
    Running => ~IsStr(frame.not_yet_passed)


\* C15: every retry, from the detector's non-verify no-match or from an
\* unresolved token wait, increments retried and checks the limit, then
\* resets dynamic and captcha_token, then clicks the reload control, and
\* only then is the next cycle started: a step that increments retried
\* without raising leaves both fields reset and the reload click next, and
\* a cycle after the first is started only by the step of the reload click.
C15_RetryResetsAndReloads ==
    [][/\ (Running /\ Step /\ retried' = retried + 1 /\ status' = "running")
            => /\ dynamic' = FALSE /\ captcha_token' = ""
               /\ frame'.pc = "reload_click" /\ cycles' = cycles
       /\ (Running /\ Step /\ cycles >= 1 /\ cycles' = cycles + 1)
            => frame.pc = "reload_click" /\ "reload" \in calls']_vars


\* C16: detect_tiles as a function of the detector's answer and verify.
\* No match and verify false: retried goes up by one, no tile is clicked,
\* and the call raises at the limit or goes to the reload click, which
\* starts the one new cycle.  No match and verify true: it returns False
\* with no click, no retry and retried unchanged.  A match: the coordinates
\* are clicked one at a time in the order returned, each once, and it
\* returns True.  (A step from the detector call to the reload click or the
\* error is the no-match of a non-verify call, one that leaves False the
\* no-match of a verify call, every other one a match.)
C16_DetectTiles ==
    [][(Running /\ Step)
         => /\ frame.pc = "detect"
               => \/ /\ ~frame.verify
                     /\ retried' = retried + 1
                     /\ calls' = calls \cup {"detect"}
                     /\ \/ status' = "raised" /\ result' = "RecursionError"
                        \/ /\ status' = "running" /\ frame' = At("reload_click")
                           /\ stack' = Append(stack, "line147")
                           /\ cycles' = cycles
                  \/ /\ frame.verify
                     /\ DetectorAnswered /\ frame'.not_yet_passed = PyFalse
                     /\ retried' = retried /\ cycles' = cycles
                     /\ calls' = calls \cup {"detect"}
                  \/ /\ DetectorAnswered /\ frame'.not_yet_passed = PyTrue
                     /\ retried' = retried /\ cycles' = cycles
                     /\ calls' = calls \cup {"detect"}
                  \/ /\ status' = "running" /\ frame'.pc = "click_tiles"
                     /\ frame'.coordinates \in Coordinates \ {<<>>}
                     /\ frame'.clicked = <<>>
                     /\ retried' = retried /\ cycles' = cycles /\ stack' = stack
            /\ frame.pc = "click_tiles"
               => /\ retried' = retried /\ cycles' = cycles /\ stack' = stack
                  /\ \/ /\ Len(frame.clicked) < Len(frame.coordinates)
                        /\ frame'.pc = "click_tiles"
                        /\ frame'.coordinates = frame.coordinates
                        /\ frame'.clicked
                             = SubSeq(frame.coordinates, 1, Len(frame.clicked) + 1)
                        /\ calls' = calls \cup {"tile"}
                     \/ /\ frame.clicked = frame.coordinates
                        /\ DetectorAnswered /\ frame'.not_yet_passed = PyTrue
                        /\ calls' = calls
            /\ frame.pc = "reload_click"
               => /\ frame' = At("prompt") /\ cycles' = cycles + 1
                  /\ calls' = calls \cup {"reload"}
                  /\ retried' = retried /\ stack' = stack]_vars

\* After a retry from detect_tiles, the cycle it started has clicked both
\* coordinates of the detector's answer
C16_RetriedThenClicked ==
    /\ Running /\ frame.pc = "click_tiles" /\ stack # <<>>
    /\ stack[Len(stack)] = "line147" /\ "reload" \in calls
    /\ Len(frame.coordinates) = MaxCoords
    /\ frame.clicked = frame.coordinates
    /\ frame.coordinates[1] # frame.coordinates[2]


\* C17: a structural failure is never retried: when a cycle, the first or
\* one started by a retry, ends with False because its label lookup timed
\* out and no token was available, that step ends the invocation with the
\* result False (so no submit click, token wait, increment of retried or
\* cycle follows it).
C17_StructuralFailureEndsSolve ==
    [][(Running /\ Step /\ frame.pc = "check_result" /\ CycleReturned(PyFalse))
         => status' = "returned" /\ result' = PyFalse]_vars


\* The url names a domain of the provider; it holds one of the two markers
ProviderDomain(url) == "google.com" \in url \/ "recaptcha.net" \in url
Marker(url) == "reload" \in url \/ "userverify" \in url

\* C18: request_handler changes dynamic or captcha_token only for a request
\* whose url has a provider domain and a marker; a request that lacks the
\* domain, the marker or both leaves the two fields as they were; and after
\* a request that has both and whose body was read, dynamic says whether the
\* body holds "dynamic", whatever it was before.
C18_ObserverFilter ==
    [][HandleRequest =>
         /\ ~(ProviderDomain(request.url) /\ Marker(request.url))
               => dynamic' = dynamic /\ captcha_token' = captcha_token
         /\ (dynamic' # dynamic \/ captcha_token' # captcha_token)
               => ProviderDomain(request.url) /\ Marker(request.url)
         /\ ( /\ ProviderDomain(request.url) /\ Marker(request.url)
              /\ request.response = "ok" )
               => dynamic' = ("dynamic" \in request.marks)]_vars

\* The body of a reload response without "dynamic" was read
C18_DynamicCleared ==
    /\ obs_pc = "done"
    /\ request.url = {"google.com", "reload"}
    /\ request.response = "ok" /\ request.marks = {"rresp"}
    /\ request.text = <<"UV", "COMMA", "QA">>
    /\ dynamic = FALSE /\ captcha_token = "tB"


\* The request's response could not be had or its body could not be read
NoBody(rq) == rq.response \in {"error", "null", "text_error"}

\* C19: request_handler never raises: every call completes normally; when
\* the response cannot be retrieved, is absent, or its body cannot be read,
\* dynamic and captcha_token keep their values; and when the body of a
\* userverify response without continuation marker holds no token field,
\* captcha_token keeps its value.
C19_ObserverNeverRaises ==
    [][HandleRequest =>
         /\ obs_pc' = "done"
         /\ NoBody(request)
               => dynamic' = dynamic /\ captcha_token' = captcha_token
         /\ ( /\ ~NoBody(request) /\ "userverify" \in request.url
              /\ ~Continues(request) /\ Fields(request.text) = {} )
               => captcha_token' = captcha_token]_vars

\* A userverify body with an empty token string was read and dropped
C19_NoTokenInBody ==
    /\ obs_pc = "done"
    /\ request.url = {"google.com", "userverify"}
    /\ request.response = "ok" /\ request.marks = {"dynamic"}
    /\ request.text = <<"UV", "COMMA", "QE">>
    /\ dynamic = TRUE /\ captcha_token = "tB"


Max(a, b) == IF a >= b THEN a ELSE b

\* How many more increments of retried can pass the limit check
Budget == Max(0, retry_times - 1 - retried)

\* The steps a frame at most has left in its cycle before the cycle ends or
\* retries, the rounds of the dynamic loop apart
PcRank(f) ==
    CASE f.pc = "click_checkbox" -> 100
      [] f.pc = "check_visible" -> 99
      [] f.pc = "settle" -> 98
      [] f.pc = "reload_click" -> 97
      [] f.pc = "prompt" -> 96
      [] f.pc \in {"check_result", "tiles"} -> 95
      [] f.pc = "tiles_poll" -> 80 + (GridPolls - f.polls)
      [] f.pc = "detect" -> IF f.looping THEN 40 ELSE 70
      [] f.pc = "click_tiles" ->
            (IF f.looping THEN 30 ELSE 60) + (Len(f.coordinates) - Len(f.clicked))
      [] f.pc = "dyn_wait" -> 50
      [] f.pc = "submit" -> 20
      [] f.pc = "token_wait" -> 2 * (TokenPolls - f.waits) + 1
      [] f.pc = "token_sleep" -> 2 * (TokenPolls - f.waits)
      [] OTHER -> 0

\* A variant of the running invocation
Rank == Budget * 10000 + Len(stack) * 200 + PcRank(frame)

\* The step ends a round of the dynamic loop and begins the next
LoopBack ==
    /\ frame.looping /\ frame.pc \in {"detect", "click_tiles"}
    /\ status' = "running" /\ stack' = stack /\ frame'.pc = "dyn_wait"

\* C20: an invocation starts at most max(1, retry_times - retried at entry)
\* cycles, nested ones included; each cycle after the first is started after
\* exactly one more increment of retried; an increment that reaches
\* retry_times raises RecursionError; and every step of the invocation that
\* does not begin another round of the dynamic loop ends the invocation or
\* decreases a variant of it, so that an invocation whose dynamic loop makes
\* finitely many rounds ends (last line: under fairness, no invocation
\* runs forever unless it is at the wait of the loop again and again).
C20_BoundedCycles ==
    /\ [][/\ cycles' <= Max(1, retry_times' - entry_retried')
          /\ (Running /\ Step /\ cycles >= 1 /\ cycles' = cycles + 1)
               => retried' - entry_retried = cycles' - 1
          /\ (Running /\ Step /\ retried' # retried)
               => /\ retried' = retried + 1
                  /\ retried' >= retry_times
                        => status' = "raised" /\ result' = "RecursionError"
          /\ (Running /\ Step /\ ~LoopBack)
               => status' # "running" \/ Rank' < Rank]_vars
    /\ []<>(~Running \/ frame.pc = "dyn_wait")

\* The third cycle of an invocation, one of them started by the reload
\* click, has ended with the retry that reaches the limit
C20_AllCyclesUsed ==
    /\ status = "raised" /\ result = "RecursionError"
    /\ retry_times = MaxRetryTimes /\ entry_retried = 0
    /\ cycles = MaxRetryTimes /\ "reload" \in calls /\ "submit" \in calls

====
